---- MODULE Spec2Model ----
(***************************************************************************)
(* Circuit breakers of vrnvu/rules (circuit-breaker-simulator):            *)
(*   CircuitBreaker (circuit_breaker.rs)  - cumulative threshold breaker   *)
(*   CountCB        (count.rs)            - count breaker, reset on success*)
(*   TimeCB         (time.rs)             - time breaker with a Clock      *)
(* A behaviour is one caller: it picks a breaker type and constructor      *)
(* arguments, constructs the breaker, then calls it (and, for TimeCB,      *)
(* ticks the clock) in any order.                                          *)
(* Load balancers of vrnvu/rules (load-balancer-simulator):                *)
(*   RoundRobin       (round_robin.rs)                                     *)
(*   LeastConnections (least_connections.rs)                               *)
(* A load balancer caller picks a balancer type and a pool, constructs the *)
(* balancer, then selects and marks servers in any order.                  *)
(***************************************************************************)
EXTENDS Integers, Sequences, FiniteSets, TLC

\* ---------------------------------------------------------------- bounds
\* Largest threshold the caller passes to a constructor (0 is passed too).
MaxThreshold == 3
\* Largest open_timeout, in milliseconds, the caller passes (0 is passed too).
MaxTimeout == 2
\* The clock is ticked at most this many times.
MaxClock == 6
\* History counters of HalfOpen -> Open cycles saturate here.
MaxCycles == 2
\* Largest closed_failures_threshold passed by the callers of SpecTimeFair.
MaxFairThreshold == 1
\* The callers of SpecU8 pass thresholds from u8::MAX - MaxSlack to u8::MAX.
MaxSlack == 1
\* Largest pool a load balancer is built with (the empty pool is passed too).
MaxServers == 3
\* LeastConnections callers stop selecting at this connection count.
MaxConnections == 2

\* ------------------------------------------------------ program constants
\* TestClock::TICK, one millisecond.
TICK == 1
\* Number of values of a u8 counter.
U8Mod == 256

\* Option<Instant>::None
None == 0 - 1

Kinds == {"CircuitBreaker", "CountCB", "TimeCB"}
Ops == {"Ok", "Err"}
CircuitState == {"Closed", "Open", "HalfOpen"}
CircuitResult == {"Rejected", "Failed", "Succeeded"}

\* A breaker variable before its constructor has returned a value.
Unbuilt == [state |-> "Unbuilt"]

\* History counters saturate one above the largest threshold.
Cap == MaxThreshold + 1

Min(a, b) == IF a < b THEN a ELSE b

VARIABLES
    kind,   \* the breaker (or load balancer) type this caller uses
    pc,     \* "start" | "live" | "ctor_panic"
    args,   \* the constructor arguments
    cb,     \* the CircuitBreaker struct
    count,  \* the CountCB struct
    time,   \* the TimeCB struct
    now,    \* TestClock.now, in milliseconds since the start Instant
    last,   \* the latest call: the operation given, how often it ran, the outcome
    hist,   \* history counters over the calls made so far
    rr,     \* the RoundRobin struct
    lc      \* the LeastConnections struct

vars == <<kind, pc, args, cb, count, time, now, last, hist, rr, lc>>

\* ------------------------------------------------------------- helpers
\* Mutant: the counter is one bit narrower than the u8 thresholds.
Add1_SevenBits(x) == (x + 1) % (U8Mod \div 2)

\* u8 `+= 1` (release build: wrapping).
Add1(x) == (x + 1) % U8Mod

\* What a call hands back: the struct after it, the outcome, and how many
\* times the wrapped operation f was run.
Ret(self, result, invoked) ==
    [self |-> self, result |-> result, invoked |-> invoked]

\* A failed assert!: the call unwinds before touching the struct or running f.
Panic(self) == Ret(self, "Panic", 0)

\* ---------------------------------------------------------------- CountCB
CountCBnew(failure_threshold, half_open_threshold) ==
    IF ~(failure_threshold > 0) THEN [ok |-> FALSE, value |-> Unbuilt]
    ELSE IF ~(half_open_threshold > 0) THEN [ok |-> FALSE, value |-> Unbuilt]
    ELSE [ok |-> TRUE,
          value |-> [state |-> "Closed",
                     closed_failures |-> 0,
                     closed_failures_threshold |-> failure_threshold,
                     half_open_attempts |-> 0,
                     half_open_threshold |-> half_open_threshold]]

\* Mutant: a success in Closed leaves closed_failures as it is.
CountClosedArm_NoReset(self, f) ==
    IF ~(self.closed_failures < self.closed_failures_threshold) THEN Panic(self)
    ELSE IF ~(self.half_open_attempts = 0) THEN Panic(self)
    ELSE IF f = "Ok"
         THEN Ret(self, "Succeeded", 1)
         ELSE LET s1 == [self EXCEPT !.closed_failures = Add1(@)]
                  s2 == IF s1.closed_failures = s1.closed_failures_threshold
                        THEN [s1 EXCEPT !.state = "Open"]
                        ELSE s1
              IN  Ret(s2, "Failed", 1)

CountClosedArm(self, f) ==
    IF ~(self.closed_failures < self.closed_failures_threshold) THEN Panic(self)
    ELSE IF ~(self.half_open_attempts = 0) THEN Panic(self)
    ELSE IF f = "Ok"
         THEN Ret([self EXCEPT !.closed_failures = 0], "Succeeded", 1)
         ELSE LET s1 == [self EXCEPT !.closed_failures = Add1(@)]
                  s2 == IF s1.closed_failures = s1.closed_failures_threshold
                        THEN [s1 EXCEPT !.state = "Open"]
                        ELSE s1
              IN  Ret(s2, "Failed", 1)

\* Mutant: the attempt counter is not reset on Open -> HalfOpen.
CountOpenArm_KeepAttempts(self, f) ==
    IF ~(self.closed_failures = self.closed_failures_threshold) THEN Panic(self)
    ELSE IF ~(self.half_open_attempts < self.half_open_threshold) THEN Panic(self)
    ELSE LET s1 == [self EXCEPT !.half_open_attempts = Add1(@)]
             s2 == IF s1.half_open_attempts = s1.half_open_threshold
                   THEN [s1 EXCEPT !.state = "HalfOpen"]
                   ELSE s1
         IN  Ret(s2, "Rejected", 0)

CountOpenArm(self, f) ==
    IF ~(self.closed_failures = self.closed_failures_threshold) THEN Panic(self)
    ELSE IF ~(self.half_open_attempts < self.half_open_threshold) THEN Panic(self)
    ELSE LET s1 == [self EXCEPT !.half_open_attempts = Add1(@)]
             s2 == IF s1.half_open_attempts = s1.half_open_threshold
                   THEN [s1 EXCEPT !.state = "HalfOpen", !.half_open_attempts = 0]
                   ELSE s1
         IN  Ret(s2, "Rejected", 0)

\* Mutant: a failed probe also clears closed_failures.
CountHalfOpenArm_ClearFailures(self, f) ==
    IF ~(self.closed_failures = self.closed_failures_threshold) THEN Panic(self)
    ELSE IF ~(self.half_open_attempts < self.half_open_threshold) THEN Panic(self)
    ELSE IF f = "Ok"
         THEN Ret([self EXCEPT !.state = "Closed", !.closed_failures = 0],
                  "Succeeded", 1)
         ELSE Ret([self EXCEPT !.state = "Open", !.closed_failures = 0,
                                !.half_open_attempts = 0],
                  "Failed", 1)

CountHalfOpenArm(self, f) ==
    IF ~(self.closed_failures = self.closed_failures_threshold) THEN Panic(self)
    ELSE IF ~(self.half_open_attempts < self.half_open_threshold) THEN Panic(self)
    ELSE IF f = "Ok"
         THEN Ret([self EXCEPT !.state = "Closed", !.closed_failures = 0],
                  "Succeeded", 1)
         ELSE Ret([self EXCEPT !.state = "Open", !.half_open_attempts = 0],
                  "Failed", 1)

CountCBcall(self, f) ==
    CASE self.state = "Closed" -> CountClosedArm(self, f)
      [] self.state = "Open" -> CountOpenArm(self, f)
      [] self.state = "HalfOpen" -> CountHalfOpenArm(self, f)

\* --------------------------------------------------------- CircuitBreaker
\* Mutant: failure_count is initialised from the threshold argument.
CircuitBreakernew_CountFromThreshold(failure_threshold, half_open_threshold) ==
    IF ~(failure_threshold > 0) THEN [ok |-> FALSE, value |-> Unbuilt]
    ELSE IF ~(half_open_threshold > 0) THEN [ok |-> FALSE, value |-> Unbuilt]
    ELSE [ok |-> TRUE,
          value |-> [state |-> "Closed",
                     failure_count |-> failure_threshold,
                     failure_threshold |-> failure_threshold,
                     half_open_attempts |-> 0,
                     half_open_threshold |-> half_open_threshold]]

CircuitBreakernew(failure_threshold, half_open_threshold) ==
    IF ~(failure_threshold > 0) THEN [ok |-> FALSE, value |-> Unbuilt]
    ELSE IF ~(half_open_threshold > 0) THEN [ok |-> FALSE, value |-> Unbuilt]
    ELSE [ok |-> TRUE,
          value |-> [state |-> "Closed",
                     failure_count |-> 0,
                     failure_threshold |-> failure_threshold,
                     half_open_attempts |-> 0,
                     half_open_threshold |-> half_open_threshold]]

\* Mutant: a success in Closed clears failure_count.
CBClosedArm_ResetOnSuccess(self, f) ==
    IF ~(self.failure_count < self.failure_threshold) THEN Panic(self)
    ELSE IF ~(self.half_open_attempts = 0) THEN Panic(self)
    ELSE IF f = "Ok"
         THEN Ret([self EXCEPT !.failure_count = 0], "Succeeded", 1)
         ELSE LET s1 == [self EXCEPT !.failure_count = Add1(@)]
                  s2 == IF s1.failure_count = s1.failure_threshold
                        THEN [s1 EXCEPT !.state = "Open"]
                        ELSE s1
              IN  Ret(s2, "Failed", 1)

\* Mutant: the threshold is compared before the increment.
CBClosedArm_CompareFirst(self, f) ==
    IF ~(self.failure_count < self.failure_threshold) THEN Panic(self)
    ELSE IF ~(self.half_open_attempts = 0) THEN Panic(self)
    ELSE IF f = "Ok"
         THEN Ret(self, "Succeeded", 1)
         ELSE LET s1 == IF self.failure_count = self.failure_threshold
                        THEN [self EXCEPT !.state = "Open"]
                        ELSE self
                  s2 == [s1 EXCEPT !.failure_count = Add1(@)]
              IN  Ret(s2, "Failed", 1)

CBClosedArm(self, f) ==
    IF ~(self.failure_count < self.failure_threshold) THEN Panic(self)
    ELSE IF ~(self.half_open_attempts = 0) THEN Panic(self)
    ELSE IF f = "Ok"
         THEN Ret(self, "Succeeded", 1)
         ELSE LET s1 == [self EXCEPT !.failure_count = Add1(@)]
                  s2 == IF s1.failure_count = s1.failure_threshold
                        THEN [s1 EXCEPT !.state = "Open"]
                        ELSE s1
              IN  Ret(s2, "Failed", 1)

CBOpenArm(self, f) ==
    IF ~(self.failure_count = self.failure_threshold) THEN Panic(self)
    ELSE IF ~(self.half_open_attempts < self.half_open_threshold) THEN Panic(self)
    ELSE LET s1 == [self EXCEPT !.half_open_attempts = Add1(@)]
             s2 == IF s1.half_open_attempts = s1.half_open_threshold
                   THEN [s1 EXCEPT !.state = "HalfOpen", !.half_open_attempts = 0]
                   ELSE s1
         IN  Ret(s2, "Rejected", 0)

\* Mutant: a failed probe re-opens without touching failure_count.
CBHalfOpenArm_KeepCountOnFailure(self, f) ==
    IF ~(self.failure_count = self.failure_threshold) THEN Panic(self)
    ELSE IF ~(self.half_open_attempts < self.half_open_threshold) THEN Panic(self)
    ELSE IF f = "Ok"
         THEN Ret([self EXCEPT !.state = "Closed", !.failure_count = 0],
                  "Succeeded", 1)
         ELSE Ret([self EXCEPT !.state = "Open", !.half_open_attempts = 0],
                  "Failed", 1)

\* Mutant: a successful probe closes the breaker without clearing failure_count.
CBHalfOpenArm_KeepFailures(self, f) ==
    IF ~(self.failure_count = self.failure_threshold) THEN Panic(self)
    ELSE IF ~(self.half_open_attempts < self.half_open_threshold) THEN Panic(self)
    ELSE IF f = "Ok"
         THEN Ret([self EXCEPT !.state = "Closed"], "Succeeded", 1)
         ELSE Ret([self EXCEPT !.state = "Open", !.failure_count = 0,
                                !.half_open_attempts = 0],
                  "Failed", 1)

CBHalfOpenArm(self, f) ==
    IF ~(self.failure_count = self.failure_threshold) THEN Panic(self)
    ELSE IF ~(self.half_open_attempts < self.half_open_threshold) THEN Panic(self)
    ELSE IF f = "Ok"
         THEN Ret([self EXCEPT !.state = "Closed", !.failure_count = 0],
                  "Succeeded", 1)
         ELSE Ret([self EXCEPT !.state = "Open", !.failure_count = 0,
                                !.half_open_attempts = 0],
                  "Failed", 1)

CircuitBreakercall(self, f) ==
    CASE self.state = "Closed" -> CBClosedArm(self, f)
      [] self.state = "Open" -> CBOpenArm(self, f)
      [] self.state = "HalfOpen" -> CBHalfOpenArm(self, f)

\* ----------------------------------------------------------------- TimeCB
\* Instants are milliseconds since the test's start Instant; open_at is an
\* Option<Instant>.
is_some(o) == o # None
is_none(o) == o = None

\* Mutant: with_clock leaves the timeout check to TimeCB::new.
TimeCBwith_clock_NoTimeoutCheck(open_timeout, half_open_probes_threshold, closed_failures_threshold) ==
    IF ~(half_open_probes_threshold > 0) THEN [ok |-> FALSE, value |-> Unbuilt]
    ELSE IF ~(closed_failures_threshold > 0) THEN [ok |-> FALSE, value |-> Unbuilt]
    ELSE [ok |-> TRUE,
          value |-> [state |-> "Closed",
                     open_at |-> None,
                     half_open_probes |-> 0,
                     closed_failures |-> 0,
                     closed_failures_threshold |-> closed_failures_threshold,
                     open_timeout |-> open_timeout,
                     half_open_probes_threshold |-> half_open_probes_threshold]]

TimeCBwith_clock(open_timeout, half_open_probes_threshold, closed_failures_threshold) ==
    IF ~(open_timeout > 0) THEN [ok |-> FALSE, value |-> Unbuilt]
    ELSE IF ~(half_open_probes_threshold > 0) THEN [ok |-> FALSE, value |-> Unbuilt]
    ELSE IF ~(closed_failures_threshold > 0) THEN [ok |-> FALSE, value |-> Unbuilt]
    ELSE [ok |-> TRUE,
          value |-> [state |-> "Closed",
                     open_at |-> None,
                     half_open_probes |-> 0,
                     closed_failures |-> 0,
                     closed_failures_threshold |-> closed_failures_threshold,
                     open_timeout |-> open_timeout,
                     half_open_probes_threshold |-> half_open_probes_threshold]]

TimeCBnew(open_timeout, half_open_probes_threshold, closed_failures_threshold) ==
    IF ~(open_timeout > 0) THEN [ok |-> FALSE, value |-> Unbuilt]
    ELSE IF ~(half_open_probes_threshold > 0) THEN [ok |-> FALSE, value |-> Unbuilt]
    ELSE IF ~(closed_failures_threshold > 0) THEN [ok |-> FALSE, value |-> Unbuilt]
    ELSE TimeCBwith_clock(open_timeout, half_open_probes_threshold,
                          closed_failures_threshold)

\* Mutant: a success in Closed leaves closed_failures as it is.
TimeClosedArm_NoReset(self, f, clock_now) ==
    IF ~(self.closed_failures < self.closed_failures_threshold) THEN Panic(self)
    ELSE IF ~(self.half_open_probes = 0) THEN Panic(self)
    ELSE IF ~is_none(self.open_at) THEN Panic(self)
    ELSE IF f = "Ok"
         THEN Ret(self, "Succeeded", 1)
         ELSE LET s1 == [self EXCEPT !.closed_failures = Add1(@)]
                  s2 == IF s1.closed_failures = s1.closed_failures_threshold
                        THEN [s1 EXCEPT !.state = "Open", !.open_at = clock_now]
                        ELSE s1
              IN  Ret(s2, "Failed", 1)

TimeClosedArm(self, f, clock_now) ==
    IF ~(self.closed_failures < self.closed_failures_threshold) THEN Panic(self)
    ELSE IF ~(self.half_open_probes = 0) THEN Panic(self)
    ELSE IF ~is_none(self.open_at) THEN Panic(self)
    ELSE IF f = "Ok"
         THEN Ret([self EXCEPT !.closed_failures = 0], "Succeeded", 1)
         ELSE LET s1 == [self EXCEPT !.closed_failures = Add1(@)]
                  s2 == IF s1.closed_failures = s1.closed_failures_threshold
                        THEN [s1 EXCEPT !.state = "Open", !.open_at = clock_now]
                        ELSE s1
              IN  Ret(s2, "Failed", 1)

\* Mutant: the probes threshold is compared before the increment.
TimeProbe_CompareFirst(self, f, clock_now) ==
    IF f = "Ok"
    THEN Ret([self EXCEPT !.state = "Closed", !.closed_failures = 0,
                           !.open_at = None, !.half_open_probes = 0],
             "Succeeded", 1)
    ELSE LET s1 == IF self.half_open_probes = self.half_open_probes_threshold
                   THEN [self EXCEPT !.state = "Open", !.half_open_probes = 0,
                                     !.open_at = clock_now]
                   ELSE [self EXCEPT !.half_open_probes = Add1(@)]
         IN  Ret(s1, "Failed", 1)

\* Mutant: re-opening keeps the open_at of the earlier opening.
TimeProbe_KeepOpenAt(self, f, clock_now) ==
    IF f = "Ok"
    THEN Ret([self EXCEPT !.state = "Closed", !.closed_failures = 0,
                           !.open_at = None, !.half_open_probes = 0],
             "Succeeded", 1)
    ELSE LET s1 == [self EXCEPT !.half_open_probes = Add1(@)]
             s2 == IF s1.half_open_probes = s1.half_open_probes_threshold
                   THEN [s1 EXCEPT !.state = "Open", !.half_open_probes = 0]
                   ELSE s1
         IN  Ret(s2, "Failed", 1)

\* The probe of the Open arm (time.rs 108-126) and the body of the HalfOpen
\* arm (time.rs 137-155) are the same statements.
TimeProbe(self, f, clock_now) ==
    IF f = "Ok"
    THEN Ret([self EXCEPT !.state = "Closed", !.closed_failures = 0,
                           !.open_at = None, !.half_open_probes = 0],
             "Succeeded", 1)
    ELSE LET s1 == [self EXCEPT !.half_open_probes = Add1(@)]
             s2 == IF s1.half_open_probes = s1.half_open_probes_threshold
                   THEN [s1 EXCEPT !.state = "Open", !.half_open_probes = 0,
                                   !.open_at = clock_now]
                   ELSE s1
         IN  Ret(s2, "Failed", 1)

\* Mutant: once the timeout has elapsed the Open arm only moves to HalfOpen and
\* leaves the probe to the next call.
TimeOpenArm_NoInlineProbe(self, f, clock_now) ==
    IF ~(self.closed_failures = self.closed_failures_threshold) THEN Panic(self)
    ELSE IF ~(self.half_open_probes = 0) THEN Panic(self)
    ELSE IF ~is_some(self.open_at) THEN Panic(self)
    ELSE IF self.open_at + self.open_timeout <= clock_now
         THEN Ret([self EXCEPT !.state = "HalfOpen", !.half_open_probes = 0],
                  "Rejected", 0)
         ELSE Ret(self, "Rejected", 0)

\* Mutant: a failed probe made out of Open is not counted.
TimeOpenArm_ProbeNotCounted(self, f, clock_now) ==
    IF ~(self.closed_failures = self.closed_failures_threshold) THEN Panic(self)
    ELSE IF ~(self.half_open_probes = 0) THEN Panic(self)
    ELSE IF ~is_some(self.open_at) THEN Panic(self)
    ELSE IF self.open_at + self.open_timeout <= clock_now
         THEN IF f = "Ok"
              THEN TimeProbe([self EXCEPT !.state = "HalfOpen", !.half_open_probes = 0],
                             f, clock_now)
              ELSE Ret([self EXCEPT !.state = "HalfOpen", !.half_open_probes = 0],
                       "Failed", 1)
         ELSE Ret(self, "Rejected", 0)

\* Mutant: the timeout has elapsed only once the clock is past its end.
TimeOpenArm_StrictTimeout(self, f, clock_now) ==
    IF ~(self.closed_failures = self.closed_failures_threshold) THEN Panic(self)
    ELSE IF ~(self.half_open_probes = 0) THEN Panic(self)
    ELSE IF ~is_some(self.open_at) THEN Panic(self)
    ELSE IF self.open_at + self.open_timeout < clock_now
         THEN TimeProbe([self EXCEPT !.state = "HalfOpen", !.half_open_probes = 0],
                        f, clock_now)
         ELSE Ret(self, "Rejected", 0)

\* Mutant: the Open arm compares open_at alone, without the timeout.
TimeOpenArm_NoTimeout(self, f, clock_now) ==
    IF ~(self.closed_failures = self.closed_failures_threshold) THEN Panic(self)
    ELSE IF ~(self.half_open_probes = 0) THEN Panic(self)
    ELSE IF ~is_some(self.open_at) THEN Panic(self)
    ELSE IF self.open_at <= clock_now
         THEN TimeProbe([self EXCEPT !.state = "HalfOpen", !.half_open_probes = 0],
                        f, clock_now)
         ELSE Ret(self, "Rejected", 0)

TimeOpenArm(self, f, clock_now) ==
    IF ~(self.closed_failures = self.closed_failures_threshold) THEN Panic(self)
    ELSE IF ~(self.half_open_probes = 0) THEN Panic(self)
    ELSE IF ~is_some(self.open_at) THEN Panic(self)
    ELSE IF self.open_at + self.open_timeout <= clock_now
         THEN TimeProbe([self EXCEPT !.state = "HalfOpen", !.half_open_probes = 0],
                        f, clock_now)
         ELSE Ret(self, "Rejected", 0)

TimeHalfOpenArm(self, f, clock_now) ==
    IF ~(self.closed_failures = self.closed_failures_threshold) THEN Panic(self)
    ELSE IF ~(self.half_open_probes < self.half_open_probes_threshold) THEN Panic(self)
    ELSE IF ~is_some(self.open_at) THEN Panic(self)
    ELSE IF ~(self.open_at + self.open_timeout <= clock_now) THEN Panic(self)
    ELSE TimeProbe(self, f, clock_now)

TimeCBcall(self, f, clock_now) ==
    CASE self.state = "Closed" -> TimeClosedArm(self, f, clock_now)
      [] self.state = "Open" -> TimeOpenArm(self, f, clock_now)
      [] self.state = "HalfOpen" -> TimeHalfOpenArm(self, f, clock_now)

\* TestClock::tick
tick(clock_now) == clock_now + TICK

\* ------------------------------------------------------- history variables
\* nfail:       calls made since construction, while every one of them was
\*              given a failing operation; None once an Ok operation was given
\* sinceOpen:   calls made since the breaker last entered Open from another
\*              state, up to and including the call that reaches HalfOpen;
\*              None outside such an episode
\* closedFails: calls that returned Failed from Closed since the breaker
\*              last entered Closed (or was constructed)
\* cycles:      HalfOpen -> Open transitions so far
\* closes:      HalfOpen -> Closed transitions so far
\* streak:      consecutive calls, up to the latest one, that returned Failed
\*              from Closed
\* probes:      consecutive failing probes up to the latest call, counted from
\*              the probe made out of Open (a probe is a call from Open or
\*              HalfOpen that ran the operation)
\* reopened:    the breaker last entered Open through a failed probe
\* oks:         consecutive calls, up to the latest one, that were given a
\*              succeeding operation
HistInit ==
    [nfail |-> 0, sinceOpen |-> None, closedFails |-> 0, cycles |-> 0, closes |-> 0,
     streak |-> 0, probes |-> 0, reopened |-> FALSE, oks |-> 0]

Observe(h, pre, f, r) ==
    LET post == r.self.state IN
    [nfail |-> IF h.nfail # None /\ f = "Err" THEN Min(h.nfail + 1, Cap) ELSE None,
     sinceOpen |-> IF pre # "Open" /\ post = "Open" THEN 0
                   ELSE IF pre = "Open" /\ h.sinceOpen # None
                        THEN Min(h.sinceOpen + 1, Cap)
                        ELSE None,
     closedFails |-> IF pre # "Closed" /\ post = "Closed" THEN 0
                     ELSE IF pre = "Closed" /\ r.result = "Failed"
                          THEN Min(h.closedFails + 1, Cap)
                          ELSE h.closedFails,
     cycles |-> IF pre = "HalfOpen" /\ post = "Open"
                THEN Min(h.cycles + 1, MaxCycles)
                ELSE h.cycles,
     closes |-> IF pre = "HalfOpen" /\ post = "Closed"
                THEN Min(h.closes + 1, MaxCycles)
                ELSE h.closes,
     streak |-> IF pre = "Closed" /\ r.result = "Failed"
                THEN Min(h.streak + 1, Cap)
                ELSE 0,
     probes |-> IF pre = "Open" /\ r.result = "Failed" THEN 1
                ELSE IF pre = "HalfOpen" /\ r.result = "Failed"
                     THEN Min(h.probes + 1, Cap)
                     ELSE 0,
     reopened |-> IF pre \in {"Open", "HalfOpen"} /\ r.result = "Failed" /\ post = "Open"
                  THEN TRUE
                  ELSE IF pre = "Closed" /\ post = "Open" THEN FALSE
                  ELSE h.reopened,
     oks |-> IF f = "Ok" THEN Min(h.oks + 1, Cap) ELSE 0]

LastInit == [op |-> "None", result |-> "None", invoked |-> 0, pre |-> "None"]

Called(pre, f, r) ==
    [op |-> f, result |-> r.result, invoked |-> r.invoked, pre |-> pre]

\* ----------------------------------------------------------------- actions
Init ==
    /\ kind \in Kinds
    /\ pc = "start"
    /\ args \in [failure_threshold : 0..MaxThreshold,
                 half_open_threshold : 0..MaxThreshold,
                 open_timeout : 0..MaxTimeout]
    /\ (kind # "TimeCB" => args.open_timeout = 0)
    /\ cb = Unbuilt
    /\ count = Unbuilt
    /\ time = Unbuilt
    /\ now = 0
    /\ last = LastInit
    /\ hist = HistInit
    /\ rr = Unbuilt
    /\ lc = Unbuilt

CountNew ==
    /\ kind = "CountCB"
    /\ pc = "start"
    /\ LET r == CountCBnew(args.failure_threshold, args.half_open_threshold) IN
        /\ pc' = IF r.ok THEN "live" ELSE "ctor_panic"
        /\ count' = r.value
    /\ UNCHANGED <<kind, args, cb, time, now, last, hist, rr, lc>>

CountCall ==
    /\ kind = "CountCB"
    /\ pc = "live"
    /\ \E f \in Ops :
        LET r == CountCBcall(count, f) IN
        /\ count' = r.self
        /\ last' = Called(count.state, f, r)
        /\ hist' = Observe(hist, count.state, f, r)
    /\ UNCHANGED <<kind, pc, args, cb, time, now, rr, lc>>

CircuitBreakerNew ==
    /\ kind = "CircuitBreaker"
    /\ pc = "start"
    /\ LET r == CircuitBreakernew(args.failure_threshold, args.half_open_threshold) IN
        /\ pc' = IF r.ok THEN "live" ELSE "ctor_panic"
        /\ cb' = r.value
    /\ UNCHANGED <<kind, args, count, time, now, last, hist, rr, lc>>

CircuitBreakerCall ==
    /\ kind = "CircuitBreaker"
    /\ pc = "live"
    /\ \E f \in Ops :
        LET r == CircuitBreakercall(cb, f) IN
        /\ cb' = r.self
        /\ last' = Called(cb.state, f, r)
        /\ hist' = Observe(hist, cb.state, f, r)
    /\ UNCHANGED <<kind, pc, args, count, time, now, rr, lc>>

\* TimeCB::new builds the breaker over the real clock, TimeCB::with_clock
\* over the clock it is given; both clocks are read through `now`.
TimeNew ==
    /\ kind = "TimeCB"
    /\ pc = "start"
    /\ LET r == TimeCBnew(args.open_timeout, args.half_open_threshold,
                          args.failure_threshold) IN
        /\ pc' = IF r.ok THEN "live" ELSE "ctor_panic"
        /\ time' = r.value
    /\ UNCHANGED <<kind, args, cb, count, now, last, hist, rr, lc>>

TimeWithClock ==
    /\ kind = "TimeCB"
    /\ pc = "start"
    /\ LET r == TimeCBwith_clock(args.open_timeout, args.half_open_threshold,
                                 args.failure_threshold) IN
        /\ pc' = IF r.ok THEN "live" ELSE "ctor_panic"
        /\ time' = r.value
    /\ UNCHANGED <<kind, args, cb, count, now, last, hist, rr, lc>>

TimeCall ==
    /\ kind = "TimeCB"
    /\ pc = "live"
    /\ \E f \in Ops :
        LET r == TimeCBcall(time, f, now) IN
        /\ time' = r.self
        /\ last' = Called(time.state, f, r)
        /\ hist' = Observe(hist, time.state, f, r)
    /\ UNCHANGED <<kind, pc, args, cb, count, now, rr, lc>>

\* Mutant: the clock tick also wakes an Open breaker whose timeout has elapsed.
Tick_WakesBreaker ==
    /\ kind = "TimeCB"
    /\ pc = "live"
    /\ now < MaxClock
    /\ now' = tick(now)
    /\ time' = IF time.state = "Open" /\ time.open_at + time.open_timeout <= now'
               THEN [time EXCEPT !.state = "HalfOpen"]
               ELSE time
    /\ UNCHANGED <<kind, pc, args, cb, count, last, hist, rr, lc>>

Tick ==
    /\ kind = "TimeCB"
    /\ pc = "live"
    /\ now < MaxClock
    /\ now' = tick(now)
    /\ UNCHANGED <<kind, pc, args, cb, count, time, last, hist, rr, lc>>

Next ==
    \/ CircuitBreakerNew
    \/ CircuitBreakerCall
    \/ CountNew
    \/ CountCall
    \/ TimeNew
    \/ TimeWithClock
    \/ TimeCall
    \/ Tick

Spec == Init /\ [][Next]_vars

\* ------------------------------------------------------------------ claims
\* The struct of the breaker this caller built.
Breaker ==
    CASE kind = "CircuitBreaker" -> cb
      [] kind = "CountCB" -> count
      [] kind = "TimeCB" -> time

CountLive == kind = "CountCB" /\ pc = "live"
TimeLive == kind = "TimeCB" /\ pc = "live"
CBLive == kind = "CircuitBreaker" /\ pc = "live"

\* The failure counter, its threshold and the cooldown counter of the two
\* count-driven breakers.
Failures == IF kind = "CountCB" THEN count.closed_failures ELSE cb.failure_count
FailureThreshold ==
    IF kind = "CountCB" THEN count.closed_failures_threshold ELSE cb.failure_threshold

\* C1: CountCB - in every state reached by any sequence of call(success) /
\* call(failure) on a breaker built with thresholds >= 1, Closed has
\* closed_failures < threshold and half_open_attempts = 0, Open and HalfOpen
\* have closed_failures = threshold and half_open_attempts < half_open_threshold,
\* and no call has failed an assertion.
C1_CountInvariants ==
    CountLive =>
        /\ count.state \in CircuitState
        /\ count.state = "Closed" =>
            /\ count.closed_failures < count.closed_failures_threshold
            /\ count.half_open_attempts = 0
        /\ count.state \in {"Open", "HalfOpen"} =>
            /\ count.closed_failures = count.closed_failures_threshold
            /\ count.half_open_attempts < count.half_open_threshold
        /\ last.result # "Panic"

\* C1 witness: a CountCB that has been through a HalfOpen -> Open cycle and is
\* part-way through the next cooldown.
C1_Witness ==
    /\ CountLive
    /\ count.state = "Open"
    /\ hist.cycles >= 1
    /\ count.half_open_attempts >= 1

\* C2: TimeCB - in every state reached by any interleaving of calls and clock
\* ticks, Closed has closed_failures < threshold, no probes and no open_at;
\* Open has closed_failures = threshold, no probes and open_at set; HalfOpen
\* has closed_failures = threshold, probes < probes threshold, open_at set and
\* open_at + open_timeout <= now; and no call has failed an assertion.
C2_TimeInvariants ==
    TimeLive =>
        /\ time.state \in CircuitState
        /\ time.state = "Closed" =>
            /\ time.closed_failures < time.closed_failures_threshold
            /\ time.half_open_probes = 0
            /\ is_none(time.open_at)
        /\ time.state = "Open" =>
            /\ time.closed_failures = time.closed_failures_threshold
            /\ time.half_open_probes = 0
            /\ is_some(time.open_at)
        /\ time.state = "HalfOpen" =>
            /\ time.closed_failures = time.closed_failures_threshold
            /\ time.half_open_probes < time.half_open_probes_threshold
            /\ is_some(time.open_at)
            /\ time.open_at + time.open_timeout <= now
        /\ last.result # "Panic"

\* C2 witness: a TimeCB in HalfOpen after a failed probe, having reopened
\* at least once before.
C2_Witness ==
    /\ TimeLive
    /\ time.state = "HalfOpen"
    /\ time.half_open_probes >= 1
    /\ hist.cycles >= 1

\* C3 (as claimed): CircuitBreaker - whenever the state is Open the failure
\* counter equals failure_threshold, and no call fails an assertion.
C3_ThresholdOpenInvariant ==
    CBLive =>
        /\ cb.state = "Open" => cb.failure_count = cb.failure_threshold
        /\ last.result # "Panic"

\* C4 (as claimed): for every breaker and every call, the operation runs at
\* most once; the call returns Rejected if and only if the operation did not
\* run; and when it ran the call returns Succeeded exactly when the operation
\* returned Ok and Failed exactly when it returned Err.
C4_OutcomeMatchesInvocation ==
    (pc = "live" /\ last.op # "None") =>
        /\ last.invoked <= 1
        /\ last.result = "Rejected" <=> last.invoked = 0
        /\ last.invoked = 1 =>
            /\ last.result = "Succeeded" <=> last.op = "Ok"
            /\ last.result = "Failed" <=> last.op = "Err"

\* Some constructor argument that must be positive is zero.
ZeroArg ==
    \/ args.failure_threshold = 0
    \/ args.half_open_threshold = 0
    \/ kind = "TimeCB" /\ args.open_timeout = 0

\* C5: construction panics, producing no breaker, whenever a threshold is zero
\* (CircuitBreaker::new, CountCB::new, TimeCB::new, TimeCB::with_clock) or, for
\* TimeCB, the open_timeout is zero; with all parameters positive it succeeds.
C5_ConstructionContract ==
    pc # "start" =>
        /\ ZeroArg =>
            /\ pc = "ctor_panic"
            /\ cb.state = "Unbuilt" /\ count.state = "Unbuilt" /\ time.state = "Unbuilt"
        /\ ~ZeroArg =>
            /\ pc = "live"
            /\ Breaker.state \in CircuitState

\* C5 witness: a TimeCB construction rejected for its zero timeout alone.
C5_Witness ==
    /\ pc = "ctor_panic"
    /\ kind = "TimeCB"
    /\ args.open_timeout = 0
    /\ args.failure_threshold > 0
    /\ args.half_open_threshold > 0

\* C6: for all three breakers, right after construction the state is Closed
\* with all counters zero, and a call made in Closed whose operation succeeds
\* returns Succeeded and leaves the state Closed.
C6_FreshClosedAndClosedSuccess ==
    pc = "live" =>
        /\ last.op = "None" =>
            /\ Breaker.state = "Closed"
            /\ kind = "CircuitBreaker" =>
                cb.failure_count = 0 /\ cb.half_open_attempts = 0
            /\ kind = "CountCB" =>
                count.closed_failures = 0 /\ count.half_open_attempts = 0
            /\ kind = "TimeCB" =>
                time.closed_failures = 0 /\ time.half_open_probes = 0
        /\ (last.pre = "Closed" /\ last.op = "Ok") =>
            /\ last.result = "Succeeded"
            /\ Breaker.state = "Closed"

\* C6 witness: a CircuitBreaker that has just served a successful call in
\* Closed after an earlier failure.
C6_Witness ==
    /\ CBLive
    /\ last.pre = "Closed"
    /\ last.op = "Ok"
    /\ last.result = "Succeeded"
    /\ cb.failure_count >= 1

\* C7: CircuitBreaker and CountCB with failure_threshold = N - from a fresh
\* breaker, each of N consecutive failing calls returns Failed; the state is
\* Closed after each of the first N-1 and Open after the N-th.
C7_OpensOnNthFailure ==
    (pc = "live" /\ kind \in {"CircuitBreaker", "CountCB"}
        /\ hist.nfail # None /\ hist.nfail >= 1 /\ hist.nfail <= FailureThreshold) =>
        /\ last.result = "Failed"
        /\ last.invoked = 1
        /\ hist.nfail < FailureThreshold => Breaker.state = "Closed"
        /\ hist.nfail = FailureThreshold => Breaker.state = "Open"

\* C7 witness: a CircuitBreaker with threshold >= 2 opened by exactly that
\* many failing calls.
C7_Witness ==
    /\ CBLive
    /\ cb.failure_threshold >= 2
    /\ hist.nfail = cb.failure_threshold
    /\ cb.state = "Open"

\* C8 (as claimed): CircuitBreaker and CountCB with half_open_threshold = H -
\* from the moment the breaker enters Open, each call returns Rejected without
\* running the operation; the state is Open after each of the first H-1 such
\* calls and HalfOpen, with the attempt counter 0, after the H-th.
C8_RejectsHCallsThenHalfOpen ==
    (pc = "live" /\ kind \in {"CircuitBreaker", "CountCB"}
        /\ hist.sinceOpen # None /\ hist.sinceOpen >= 1
        /\ hist.sinceOpen <= Breaker.half_open_threshold) =>
        /\ last.result = "Rejected"
        /\ last.invoked = 0
        /\ hist.sinceOpen < Breaker.half_open_threshold => Breaker.state = "Open"
        /\ hist.sinceOpen = Breaker.half_open_threshold =>
            /\ Breaker.state = "HalfOpen"
            /\ Breaker.half_open_attempts = 0

\* C9: CircuitBreaker and CountCB - a call in HalfOpen whose operation
\* succeeds returns Succeeded, closes the breaker and clears the failure
\* counter, so the breaker re-opens from Closed only after failure_threshold
\* further calls have failed in Closed.
C9_HalfOpenSuccessCloses ==
    (pc = "live" /\ kind \in {"CircuitBreaker", "CountCB"}) =>
        /\ (last.pre = "HalfOpen" /\ last.op = "Ok") =>
            /\ last.result = "Succeeded"
            /\ Breaker.state = "Closed"
            /\ Failures = 0
        /\ (hist.closes >= 1 /\ last.pre = "Closed" /\ Breaker.state = "Open") =>
            hist.closedFails >= FailureThreshold

\* C9 witness: a CountCB that recovered through HalfOpen and has re-opened
\* from Closed, with threshold >= 2.
C9_Witness ==
    /\ CountLive
    /\ hist.closes >= 1
    /\ last.pre = "Closed"
    /\ count.state = "Open"
    /\ count.closed_failures_threshold >= 2

\* C10: CountCB - a call in HalfOpen whose operation fails returns Failed,
\* re-opens the breaker, sets half_open_attempts to 0 and leaves
\* closed_failures = closed_failures_threshold; so the Open invariant holds in
\* every later cycle, and each cycle rejects exactly half_open_threshold calls
\* before the next probe.
C10_HalfOpenFailureReopens ==
    CountLive =>
        /\ (last.pre = "HalfOpen" /\ last.op = "Err") =>
            /\ last.result = "Failed"
            /\ last.invoked = 1
            /\ count.state = "Open"
            /\ count.half_open_attempts = 0
            /\ count.closed_failures = count.closed_failures_threshold
        /\ (hist.cycles >= 1 /\ count.state = "Open") =>
            /\ count.closed_failures = count.closed_failures_threshold
            /\ count.half_open_attempts < count.half_open_threshold
            /\ count.half_open_attempts = hist.sinceOpen
        /\ (hist.cycles >= 1 /\ last.pre = "Open") =>
            /\ last.result = "Rejected"
            /\ last.invoked = 0
        /\ (hist.cycles >= 1 /\ count.state = "HalfOpen") =>
            hist.sinceOpen = count.half_open_threshold

\* C10 witness: a CountCB back in HalfOpen after two failed probes, with a
\* cooldown of at least two calls.
C10_Witness ==
    /\ CountLive
    /\ hist.cycles >= 2
    /\ count.state = "HalfOpen"
    /\ count.half_open_threshold >= 2

\* C11: CircuitBreaker - a call in HalfOpen whose operation fails returns
\* Failed and moves to Open with the failure counter reset to 0, so the next
\* call fails the Open arm's assertion failure_count = failure_threshold
\* instead of returning Rejected.
C11_ThresholdReopenResetsCount ==
    CBLive =>
        /\ (last.pre = "HalfOpen" /\ last.op = "Err") =>
            /\ last.result = "Failed"
            /\ last.invoked = 1
            /\ cb.state = "Open"
            /\ cb.failure_count = 0
        /\ (hist.reopened /\ last.pre = "Open") =>
            /\ last.result = "Panic"
            /\ last.invoked = 0
            /\ cb.state = "Open"
            /\ cb.failure_count = 0

\* C11 witness: a CircuitBreaker whose call after a failed probe has panicked.
C11_Witness ==
    /\ CBLive
    /\ hist.reopened
    /\ last.pre = "Open"
    /\ last.result = "Panic"

\* C12: CountCB with failure_threshold = N - a success in Closed resets
\* closed_failures to 0, so closed_failures is the number of consecutive failed
\* Closed calls and the breaker leaves Closed only on the N-th of N consecutive
\* failures; N-1 failures, a success and N-1 more failures leave it Closed.
C12_CountConsecutiveFailuresOpen ==
    CountLive =>
        /\ (last.pre = "Closed" /\ last.op = "Ok") =>
            /\ last.result = "Succeeded"
            /\ count.state = "Closed"
            /\ count.closed_failures = 0
        /\ count.state = "Closed" =>
            /\ count.closed_failures = hist.streak
            /\ hist.streak < count.closed_failures_threshold
        /\ (last.pre = "Closed" /\ count.state = "Open") =>
            hist.streak = count.closed_failures_threshold

\* C12 witness: a CountCB still Closed although at least N calls have failed
\* since it was last closed, a success having come in between.
C12_Witness ==
    /\ CountLive
    /\ count.state = "Closed"
    /\ count.closed_failures_threshold >= 2
    /\ hist.closedFails >= count.closed_failures_threshold
    /\ hist.streak = count.closed_failures_threshold - 1

\* C13: CircuitBreaker with failure_threshold = N - a success in Closed leaves
\* failure_count unchanged, so failure_count is the number of failed Closed
\* calls since construction or the last HalfOpen success, and the breaker opens
\* on the call at which that number reaches N, whatever successes come between.
C13_ThresholdCumulativeFailuresOpen ==
    CBLive =>
        /\ (last.pre = "Closed" /\ last.op = "Ok") =>
            /\ last.result = "Succeeded"
            /\ cb.state = "Closed"
        /\ cb.state = "Closed" =>
            /\ cb.failure_count = hist.closedFails
            /\ hist.closedFails < cb.failure_threshold
        /\ (last.pre = "Closed" /\ cb.state = "Open") =>
            /\ hist.closedFails = cb.failure_threshold
            /\ cb.failure_count = cb.failure_threshold

\* C13 witness: a CircuitBreaker opened by its N-th failure although the
\* failures were not consecutive.
C13_Witness ==
    /\ CBLive
    /\ cb.state = "Open"
    /\ last.pre = "Closed"
    /\ hist.streak < hist.closedFails

\* A step of a live TimeCB that leaves the clock alone: a call.
TimeCallStep == TimeLive /\ now' = now

\* C14: TimeCB in Closed - a failing call returns Failed and increments
\* closed_failures; the state becomes Open, with open_at the clock reading of
\* that call, exactly when closed_failures reaches the threshold; a successful
\* call returns Succeeded and resets closed_failures to 0, so only threshold
\* consecutive failures open the breaker.
C14_TimeClosedArm ==
    /\ [](TimeLive =>
            /\ time.state = "Closed" => time.closed_failures = hist.streak
            /\ (last.pre = "Closed" /\ time.state = "Open") =>
                hist.streak = time.closed_failures_threshold)
    /\ [][(TimeCallStep /\ time.state = "Closed") =>
            /\ last'.invoked = 1
            /\ last'.op = "Err" =>
                /\ last'.result = "Failed"
                /\ time'.closed_failures = time.closed_failures + 1
                /\ time'.state = "Open" <=>
                    time'.closed_failures = time.closed_failures_threshold
                /\ time'.state = "Closed" <=>
                    time'.closed_failures < time.closed_failures_threshold
                /\ time'.state = "Open" => time'.open_at = now
                /\ time'.state = "Closed" => is_none(time'.open_at)
            /\ last'.op = "Ok" =>
                /\ last'.result = "Succeeded"
                /\ time'.closed_failures = 0
                /\ time'.state = "Closed"
                /\ is_none(time'.open_at)]_vars

\* C14 witness: a TimeCB opened from Closed at a clock reading after the start,
\* by failures that were not all consecutive.
C14_Witness ==
    /\ TimeLive
    /\ time.state = "Open"
    /\ last.pre = "Closed"
    /\ hist.streak < hist.closedFails
    /\ time.open_at >= 1
    /\ time.open_at = now

\* C15: TimeCB in Open with now < open_at + open_timeout - the call returns
\* Rejected, the operation is not run, and state, open_at, closed_failures and
\* half_open_probes are unchanged, however many such calls are made.
C15_OpenBeforeTimeoutRejects ==
    [][(TimeCallStep /\ time.state = "Open"
            /\ now < time.open_at + time.open_timeout) =>
            /\ last'.result = "Rejected"
            /\ last'.invoked = 0
            /\ time' = time]_vars

\* C15 witness: a TimeCB that has rejected calls, the latest after the clock
\* advanced without reaching the timeout.
C15_Witness ==
    /\ TimeLive
    /\ time.state = "Open"
    /\ last.pre = "Open"
    /\ last.result = "Rejected"
    /\ hist.sinceOpen >= 2
    /\ now > time.open_at
    /\ now < time.open_at + time.open_timeout

\* C16: TimeCB in Open with now >= open_at + open_timeout - the same call runs
\* the operation and is never Rejected; on success it returns Succeeded and
\* ends Closed with open_at cleared and both counters 0; on failure with
\* half_open_probes_threshold = 1 it returns Failed and ends Open again.
C16_OpenAfterTimeoutProbesInline ==
    [][(TimeCallStep /\ time.state = "Open"
            /\ time.open_at + time.open_timeout <= now) =>
            /\ last'.invoked = 1
            /\ last'.result # "Rejected"
            /\ last'.op = "Ok" =>
                /\ last'.result = "Succeeded"
                /\ time'.state = "Closed"
                /\ is_none(time'.open_at)
                /\ time'.closed_failures = 0
                /\ time'.half_open_probes = 0
            /\ (last'.op = "Err" /\ time.half_open_probes_threshold = 1) =>
                /\ last'.result = "Failed"
                /\ time'.state = "Open"]_vars

\* C16 witness: a TimeCB with probes threshold 1 back in Open after its inline
\* probe failed.
C16_Witness ==
    /\ TimeLive
    /\ time.half_open_probes_threshold = 1
    /\ last.pre = "Open"
    /\ last.result = "Failed"
    /\ time.state = "Open"

\* C17: TimeCB with half_open_probes_threshold = P - after the timeout has
\* elapsed, consecutive failing probes, the inline probe from Open being the
\* first, each return Failed; the state is HalfOpen after each of the first
\* P-1 and Open, with the probe counter 0, after the P-th.
C17_ReopensOnPthFailedProbe ==
    (TimeLive /\ hist.probes >= 1) =>
        /\ last.result = "Failed"
        /\ last.invoked = 1
        /\ hist.probes <= time.half_open_probes_threshold
        /\ hist.probes < time.half_open_probes_threshold =>
            /\ time.state = "HalfOpen"
            /\ time.half_open_probes = hist.probes
        /\ hist.probes = time.half_open_probes_threshold =>
            /\ time.state = "Open"
            /\ time.half_open_probes = 0

\* C17 witness: a TimeCB with probes threshold >= 2 re-opened by that many
\* consecutive failing probes.
C17_Witness ==
    /\ TimeLive
    /\ time.half_open_probes_threshold >= 2
    /\ hist.probes = time.half_open_probes_threshold
    /\ time.state = "Open"

\* C18: TimeCB - when a failing probe re-opens the breaker at clock reading t,
\* open_at is set to t, so every call made at a reading < t + open_timeout is
\* Rejected, also a call made right after the re-opening with no clock advance.
C18_ReopenRecordsFreshOpenAt ==
    /\ [][(TimeCallStep /\ time.state \in {"Open", "HalfOpen"}
            /\ last'.result = "Failed" /\ time'.state = "Open") =>
            time'.open_at = now]_vars
    /\ [][(TimeCallStep /\ time.state = "Open" /\ hist.reopened
            /\ (now = time.open_at \/ now < time.open_at + time.open_timeout)) =>
            /\ last'.result = "Rejected"
            /\ last'.invoked = 0
            /\ time'.state = "Open"]_vars

\* C18 witness: a TimeCB re-opened by a failed HalfOpen probe well after its
\* first opening, whose next call, with no clock advance, was Rejected.
C18_Witness ==
    /\ TimeLive
    /\ hist.reopened
    /\ hist.cycles >= 1
    /\ time.state = "Open"
    /\ last.result = "Rejected"
    /\ hist.sinceOpen = 1
    /\ time.open_at = now
    /\ now >= 2

\* C19: TimeCB - between calls the breaker is never in HalfOpen with no probe
\* attempted: HalfOpen implies 1 <= half_open_probes < half_open_probes_threshold.
C19_HalfOpenHasProbed ==
    (TimeLive /\ time.state = "HalfOpen") =>
        /\ 1 <= time.half_open_probes
        /\ time.half_open_probes < time.half_open_probes_threshold

\* C19 witness: a TimeCB just moved from Open to HalfOpen by a failed inline
\* probe.
C19_Witness ==
    /\ TimeLive
    /\ time.state = "HalfOpen"
    /\ last.pre = "Open"
    /\ time.half_open_probes = 1

\* C20: TimeCB - advancing the clock alone never changes the breaker: state,
\* open_at and counters change only in call, so an Open breaker stays Open
\* after the timeout has elapsed until the next call arrives.
C20_TickLeavesBreakerAlone ==
    [][(TimeLive /\ now' # now) =>
            /\ time' = time
            /\ last' = last]_vars

\* C20 witness: a TimeCB still Open, untouched, after the clock has passed
\* open_at + open_timeout.
C20_Witness ==
    /\ TimeLive
    /\ time.state = "Open"
    /\ time.open_at + time.open_timeout < now
    /\ last.result = "Failed"

\* ------------------------------------------------------ lock-step callers
\* A caller that builds a CountCB and a CircuitBreaker with the same
\* thresholds and hands every operation outcome to both.  Here `last` holds
\* the latest call of each breaker and `hist` records whether a call has gone
\* through one of the two rows in which the transition tables differ.
LockstepInit ==
    /\ kind = "Lockstep"
    /\ pc = "start"
    /\ args \in [failure_threshold : 0..MaxThreshold,
                 half_open_threshold : 0..MaxThreshold,
                 open_timeout : {0}]
    /\ cb = Unbuilt
    /\ count = Unbuilt
    /\ time = Unbuilt
    /\ now = 0
    /\ last = [op |-> "None", count |-> LastInit, cb |-> LastInit]
    /\ hist = [differ |-> FALSE]
    /\ rr = Unbuilt
    /\ lc = Unbuilt

\* The rows that differ: a success in Closed with a non-zero failure counter
\* (CountCB clears it, CircuitBreaker keeps it) and a failure in HalfOpen
\* (CircuitBreaker clears failure_count, CountCB keeps closed_failures).
DifferingRow(c, b, f) ==
    \/ /\ f = "Ok"
       /\ \/ c.state = "Closed" /\ c.closed_failures # 0
          \/ b.state = "Closed" /\ b.failure_count # 0
    \/ /\ f = "Err"
       /\ (c.state = "HalfOpen" \/ b.state = "HalfOpen")

LockstepNew ==
    /\ kind = "Lockstep"
    /\ pc = "start"
    /\ LET rc == CountCBnew(args.failure_threshold, args.half_open_threshold)
           rb == CircuitBreakernew(args.failure_threshold, args.half_open_threshold)
       IN
        /\ pc' = IF rc.ok /\ rb.ok THEN "live" ELSE "ctor_panic"
        /\ count' = rc.value
        /\ cb' = rb.value
    /\ UNCHANGED <<kind, args, time, now, last, hist, rr, lc>>

LockstepCall ==
    /\ kind = "Lockstep"
    /\ pc = "live"
    /\ \E f \in Ops :
        LET rc == CountCBcall(count, f)
            rb == CircuitBreakercall(cb, f)
        IN
        /\ count' = rc.self
        /\ cb' = rb.self
        /\ last' = [op |-> f,
                    count |-> Called(count.state, f, rc),
                    cb |-> Called(cb.state, f, rb)]
        /\ hist' = [differ |-> hist.differ \/ DifferingRow(count, cb, f)]
    /\ UNCHANGED <<kind, pc, args, time, now, rr, lc>>

LockstepNext ==
    \/ LockstepNew
    \/ LockstepCall

SpecLockstep == LockstepInit /\ [][LockstepNext]_vars

LockstepLive == kind = "Lockstep" /\ pc = "live"

\* C21: a CountCB and a CircuitBreaker built with the same thresholds and fed
\* the same operation outcomes return the same outcome and are in the same
\* state (with the same counters) after every call, as long as no call has
\* succeeded in Closed with a non-zero failure counter and no call has failed
\* in HalfOpen.
C21_LockstepAgree ==
    (LockstepLive /\ ~hist.differ) =>
        /\ count.state = cb.state
        /\ last.count = last.cb
        /\ count.closed_failures = cb.failure_count
        /\ count.closed_failures_threshold = cb.failure_threshold
        /\ count.half_open_attempts = cb.half_open_attempts
        /\ count.half_open_threshold = cb.half_open_threshold

\* C21 witness: both breakers have opened after more than one failure, cooled
\* down over more than one rejected call and closed again on a successful
\* probe, without touching a differing row.
C21_Witness ==
    /\ LockstepLive
    /\ ~hist.differ
    /\ args.failure_threshold > 1
    /\ args.half_open_threshold > 1
    /\ last.count.pre = "HalfOpen"
    /\ last.count.result = "Succeeded"
    /\ last.cb.result = "Succeeded"
    /\ cb.state = "Closed"

\* ------------------------------------------------- claims on single callers
\* A step of a live caller that leaves the clock alone is a call.
CallStep == pc = "live" /\ kind \in Kinds /\ now' = now

\* The caller's breaker admits operations: it is Closed or HalfOpen or, for
\* TimeCB, Open with open_at + open_timeout <= now.
TimeoutElapsed ==
    /\ kind = "TimeCB"
    /\ time.state = "Open"
    /\ time.open_at + time.open_timeout <= now

\* C22: for every breaker the operation is invoked exactly when the call
\* starts in Closed or HalfOpen, or (TimeCB) in Open with the timeout elapsed;
\* a call that starts in Closed or HalfOpen returns Succeeded or Failed, never
\* Rejected; and a TimeCB call in HalfOpen invokes the operation whatever the
\* clock reads.
C22_InvokedWhenAllowed ==
    [][CallStep =>
        /\ last'.invoked \in {0, 1}
        /\ last'.invoked = 1 <=>
            (Breaker.state \in {"Closed", "HalfOpen"} \/ TimeoutElapsed)
        /\ Breaker.state \in {"Closed", "HalfOpen"} =>
            last'.result \in {"Succeeded", "Failed"}]_vars

\* C22 witness: a TimeCB probe made from HalfOpen, later than the instant the
\* timeout elapsed, ran the operation.
C22_Witness ==
    /\ TimeLive
    /\ last.pre = "HalfOpen"
    /\ last.invoked = 1
    /\ time.state = "HalfOpen"
    /\ now > time.open_at + time.open_timeout

CountOrCBLive == pc = "live" /\ kind \in {"CircuitBreaker", "CountCB"}

\* C23: CircuitBreaker and CountCB - whenever the state is HalfOpen the
\* cooldown attempt counter is 0, and every call that starts in HalfOpen ends
\* in Closed (the operation succeeded) or in Open (it failed), never in
\* HalfOpen.
C23_HalfOpenLastsOneCall ==
    /\ []((CountOrCBLive /\ Breaker.state = "HalfOpen") =>
            Breaker.half_open_attempts = 0)
    /\ [][(CountOrCBLive /\ Breaker.state = "HalfOpen") =>
            \/ /\ last'.op = "Ok"
               /\ last'.result = "Succeeded"
               /\ Breaker'.state = "Closed"
            \/ /\ last'.op = "Err"
               /\ last'.result = "Failed"
               /\ Breaker'.state = "Open"]_vars

\* C23 witness: a CountCB that has left HalfOpen both ways, the latest time
\* back to Open.
C23_Witness ==
    /\ CountLive
    /\ last.pre = "HalfOpen"
    /\ count.state = "Open"
    /\ hist.closes >= 1

\* Calls with a succeeding operation a CountCB still needs before it is
\* Closed: the rejected calls left in the cooldown and the probe.
CallsToClosed(self) ==
    CASE self.state = "Closed" -> 0
      [] self.state = "HalfOpen" -> 1
      [] self.state = "Open" ->
            (self.half_open_threshold - self.half_open_attempts) + 1

\* C24: CountCB - after half_open_threshold + 1 or more consecutive calls
\* whose operation succeeded, made from any reachable state, the breaker is
\* Closed; in every reachable state at most half_open_threshold + 1 calls are
\* needed to close it, every call whose operation succeeds brings it one call
\* nearer, and once Closed it stays Closed while operations succeed.
C24_CountRecoveryBound ==
    /\ [](CountLive =>
            /\ hist.oks >= count.half_open_threshold + 1 => count.state = "Closed"
            /\ CallsToClosed(count) >= 0
            /\ CallsToClosed(count) <= count.half_open_threshold + 1)
    /\ [][(CountLive /\ last'.op = "Ok") =>
            IF count.state = "Closed"
            THEN count'.state = "Closed"
            ELSE CallsToClosed(count') = CallsToClosed(count) - 1]_vars

\* C24 witness: a CountCB with a cooldown of several calls that re-opened from
\* HalfOpen and has now closed on the last of exactly half_open_threshold + 1
\* calls with a succeeding operation.
C24_Witness ==
    /\ CountLive
    /\ count.half_open_threshold > 1
    /\ hist.cycles >= 1
    /\ hist.oks = count.half_open_threshold + 1
    /\ last.pre = "HalfOpen"
    /\ last.op = "Ok"
    /\ count.state = "Closed"

\* ------------------------------------------------ TimeCB under fair callers
\* A TimeCB caller whose clock keeps advancing (up to MaxClock) and who keeps
\* making calls with a succeeding operation.
\* Recovery starts in Open, whatever number of failures opened the breaker:
\* these callers pass a closed_failures_threshold of at most MaxFairThreshold.
TimeFairInit ==
    /\ Init
    /\ kind = "TimeCB"
    /\ args.failure_threshold <= MaxFairThreshold

TimeFairNext ==
    \/ TimeNew
    \/ TimeWithClock
    \/ TimeCall
    \/ Tick

SpecTimeFair ==
    /\ TimeFairInit
    /\ [][TimeFairNext]_vars
    /\ WF_vars(Tick)
    /\ WF_vars(TimeCall /\ last'.op = "Ok")

\* The clock of this model stops at MaxClock: an Open breaker whose timeout
\* ends later than that is never given the clock reading it waits for.
TimeoutWithinClock ==
    /\ TimeLive
    /\ time.state \in {"Open", "HalfOpen"}
    /\ time.open_at + time.open_timeout <= MaxClock

TimeoutBeyondClock ==
    /\ TimeLive
    /\ time.state = "Open"
    /\ time.open_at + time.open_timeout > MaxClock

\* C25: TimeCB - if from some point on no call is given a failing operation,
\* then, with the clock advancing and calls with succeeding operations being
\* made, every Open or HalfOpen breaker (whose timeout the clock can reach)
\* eventually is Closed; and a call with a succeeding operation made in Open
\* or HalfOpen at or after open_at + open_timeout closes the breaker in that
\* call, while one made earlier leaves it Open.
C25_TimeEventuallyCloses ==
    /\ (<>[][~(TimeCall /\ last'.op = "Err")]_vars) =>
            (TimeoutWithinClock ~> (time.state = "Closed" \/ TimeoutBeyondClock))
    /\ [][(TimeCallStep /\ time.state \in {"Open", "HalfOpen"} /\ last'.op = "Ok") =>
            IF time.open_at + time.open_timeout <= now
            THEN time'.state = "Closed" /\ last'.result = "Succeeded"
            ELSE time'.state = "Open" /\ last'.result = "Rejected"]_vars

\* C25 witness: a TimeCB that re-opened on failed probes, waited out the new
\* timeout and was closed by the first succeeding call after it.
C25_Witness ==
    /\ TimeLive
    /\ hist.cycles >= 1
    /\ last.pre = "Open"
    /\ last.op = "Ok"
    /\ last.result = "Succeeded"
    /\ time.state = "Closed"

\* -------------------------------------------- callers with large thresholds
\* u8::MAX
U8Max == U8Mod - 1

\* A caller of CountCB or TimeCB who passes thresholds at the top of the u8
\* range and, to TimeCB, a timeout of zero or of one clock tick.
U8Init ==
    /\ kind \in {"CountCB", "TimeCB"}
    /\ pc = "start"
    /\ args \in [failure_threshold : (U8Max - MaxSlack)..U8Max,
                 half_open_threshold : (U8Max - MaxSlack)..U8Max,
                 open_timeout : 0..TICK]
    /\ (kind # "TimeCB" => args.open_timeout = 0)
    /\ cb = Unbuilt
    /\ count = Unbuilt
    /\ time = Unbuilt
    /\ now = 0
    /\ last = LastInit
    /\ hist = HistInit
    /\ rr = Unbuilt
    /\ lc = Unbuilt

U8Next ==
    \/ CountNew
    \/ CountCall
    \/ TimeNew
    \/ TimeWithClock
    \/ TimeCall
    \/ Tick

SpecU8 == U8Init /\ [][U8Next]_vars

\* The counter went from c to c2 in a call that executed its `+= 1` under
\* threshold t: c was strictly below t, and c2 is c + 1 unless the call then
\* reset it on reaching t (resetTo is the state such a call moves to).
Incremented(c, c2, t, post, resetTo) ==
    /\ c < t
    /\ \/ c2 = c + 1
       \/ c + 1 = t /\ c2 = 0 /\ post = resetTo

\* C26: CountCB and TimeCB, thresholds up to u8::MAX - every counter stays
\* within 0..its threshold, no call fails an assertion, and every `+= 1` on
\* the failure counter, the cooldown attempt counter or the probe counter is
\* executed with the counter strictly below its threshold and adds exactly 1
\* (it never wraps to 0).
C26_NoCounterOverflow ==
    /\ [](CountLive =>
            /\ count.closed_failures_threshold <= U8Max
            /\ count.half_open_threshold <= U8Max
            /\ count.closed_failures \in 0..count.closed_failures_threshold
            /\ count.half_open_attempts \in 0..count.half_open_threshold
            /\ last.result # "Panic")
    /\ [](TimeLive =>
            /\ time.closed_failures_threshold <= U8Max
            /\ time.half_open_probes_threshold <= U8Max
            /\ time.closed_failures \in 0..time.closed_failures_threshold
            /\ time.half_open_probes \in 0..time.half_open_probes_threshold
            /\ last.result # "Panic")
    /\ [][(CallStep /\ kind = "CountCB") =>
            /\ (count.state = "Closed" /\ last'.op = "Err") =>
                Incremented(count.closed_failures, count'.closed_failures,
                            count.closed_failures_threshold, count'.state, "None")
            /\ count.state = "Open" =>
                Incremented(count.half_open_attempts, count'.half_open_attempts,
                            count.half_open_threshold, count'.state, "HalfOpen")]_vars
    /\ [][(CallStep /\ kind = "TimeCB") =>
            /\ (time.state = "Closed" /\ last'.op = "Err") =>
                Incremented(time.closed_failures, time'.closed_failures,
                            time.closed_failures_threshold, time'.state, "None")
            /\ ((time.state = "HalfOpen" \/ TimeoutElapsed) /\ last'.op = "Err") =>
                Incremented(time.half_open_probes, time'.half_open_probes,
                            time.half_open_probes_threshold, time'.state, "Open")]_vars

\* C26 witness: a TimeCB with both thresholds at u8::MAX that opened on the
\* 255th failure and has counted 254 failed probes.
C26_Witness ==
    /\ TimeLive
    /\ time.closed_failures_threshold = U8Max
    /\ time.half_open_probes_threshold = U8Max
    /\ time.closed_failures = U8Max
    /\ time.half_open_probes = U8Max - 1

\* ------------------------------------------------------------ load balancers
\* load-balancer-simulator: RoundRobin (round_robin.rs) and LeastConnections
\* (least_connections.rs) over a Vec<Server>.  A pool is a function from the
\* indexes 0..n-1 to the servers' states; select_server answers with an index.
ServerState == {"Healthy", "Unhealthy"}
LBKinds == {"RoundRobin", "LeastConnections"}

\* Vec<Server> values of up to MaxServers servers, the empty one included.
Pools == UNION {[0..(n - 1) -> ServerState] : n \in 0..MaxServers}

\* Vec::len
len(v) == Cardinality(DOMAIN v)

\* LoadBalancerResult
Selected(i) == [tag |-> "Selected", id |-> i]
NoHealthyServers == [tag |-> "NoHealthyServers", id |-> None]

\* What a load balancer method hands back: the struct after it, the result
\* (select_server only) and the number of times the skip loop advanced.
LBRet(self, result, advances) ==
    [self |-> self, result |-> result, advances |-> advances]

\* A method that returned ().
Unit == [tag |-> "Unit", id |-> None]

\* A failed assert!, or an arithmetic overflow caught by the overflow checks
\* of the test profile: the method unwinds.
LBPanic(self) == LBRet(self, [tag |-> "Panic", id |-> None], 0)

\* ------------------------------------------------------------- RoundRobin
\* Mutant: the servers that are Unhealthy at construction are not counted.
RoundRobinnew_CountZero(servers) ==
    IF ~(len(servers) # 0) THEN [ok |-> FALSE, value |-> Unbuilt]
    ELSE [ok |-> TRUE,
          value |-> [servers |-> servers,
                     current_index |-> 0,
                     unhealthy_count |-> 0]]

RoundRobinnew(servers) ==
    IF ~(len(servers) # 0) THEN [ok |-> FALSE, value |-> Unbuilt]
    ELSE [ok |-> TRUE,
          value |-> [servers |-> servers,
                     current_index |-> 0,
                     unhealthy_count |->
                        Cardinality({i \in DOMAIN servers : servers[i] = "Unhealthy"})]]

\* The loop `while servers[current_index] is Unhealthy { advance }` after n
\* advances.  Once it has advanced len times without meeting a Healthy server
\* it has seen every server and never exits.
RECURSIVE RRSkip(_, _)
RRSkip(self, n) ==
    IF self.servers[self.current_index] = "Unhealthy"
    THEN IF n >= len(self.servers)
         THEN LBRet(self, [tag |-> "Hang", id |-> None], n)
         ELSE RRSkip([self EXCEPT !.current_index = (@ + 1) % len(self.servers)],
                     n + 1)
    ELSE LBRet(self, Selected(self.current_index), n)

RRselect_server(self) ==
    IF ~(len(self.servers) # 0) THEN LBPanic(self)
    ELSE IF ~(self.current_index < len(self.servers)) THEN LBPanic(self)
    ELSE IF ~(self.unhealthy_count <= len(self.servers)) THEN LBPanic(self)
    ELSE IF self.unhealthy_count = len(self.servers)
         THEN LBRet(self, NoHealthyServers, 0)
         ELSE RRSkip(self, 0)

\* Mutant: the count is decremented whatever the server's state was.
RRhealthy_server_AlwaysDecrement(self, server_id) ==
    IF ~(server_id < len(self.servers)) THEN LBPanic(self)
    ELSE IF ~(self.unhealthy_count <= len(self.servers)) THEN LBPanic(self)
    ELSE IF self.unhealthy_count = 0 THEN LBPanic(self)
    ELSE LBRet([self EXCEPT !.unhealthy_count = @ - 1,
                            !.servers[server_id] = "Healthy"],
               Unit, 0)

RRhealthy_server(self, server_id) ==
    IF ~(server_id < len(self.servers)) THEN LBPanic(self)
    ELSE IF ~(self.unhealthy_count <= len(self.servers)) THEN LBPanic(self)
    ELSE IF self.servers[server_id] = "Unhealthy"
         THEN IF self.unhealthy_count = 0
              THEN LBPanic(self)
              ELSE LBRet([self EXCEPT !.unhealthy_count = @ - 1,
                                      !.servers[server_id] = "Healthy"],
                         Unit, 0)
         ELSE LBRet(self, Unit, 0)

\* Mutant: the server is marked without being counted.
RRunhealthy_server_NotCounted(self, server_id) ==
    IF ~(server_id < len(self.servers)) THEN LBPanic(self)
    ELSE IF ~(self.unhealthy_count <= len(self.servers)) THEN LBPanic(self)
    ELSE IF self.servers[server_id] = "Healthy"
         THEN LBRet([self EXCEPT !.servers[server_id] = "Unhealthy"], Unit, 0)
         ELSE LBRet(self, Unit, 0)

RRunhealthy_server(self, server_id) ==
    IF ~(server_id < len(self.servers)) THEN LBPanic(self)
    ELSE IF ~(self.unhealthy_count <= len(self.servers)) THEN LBPanic(self)
    ELSE IF self.servers[server_id] = "Healthy"
         THEN LBRet([self EXCEPT !.unhealthy_count = @ + 1,
                                 !.servers[server_id] = "Unhealthy"],
                    Unit, 0)
         ELSE LBRet(self, Unit, 0)

RRcount(self) == len(self.servers)

\* ------------------------------------------------------- LeastConnections
LeastConnectionsnew(servers) ==
    IF ~(len(servers) # 0) THEN [ok |-> FALSE, value |-> Unbuilt]
    ELSE [ok |-> TRUE,
          value |-> [servers |-> servers,
                     connection_counts |-> [i \in DOMAIN servers |-> 0]]]

\* The scan of the mutant LCselect_server_LastOfTies: a server with as few
\* connections as the best so far replaces it.
RECURSIVE LCScan_LastOfTies(_, _, _, _)
LCScan_LastOfTies(self, i, best_server, min_connections) ==
    IF i = len(self.servers) THEN best_server
    ELSE IF /\ self.servers[i] = "Healthy"
            /\ \/ min_connections = None
               \/ self.connection_counts[i] <= min_connections
         THEN LCScan_LastOfTies(self, i + 1, i, self.connection_counts[i])
         ELSE LCScan_LastOfTies(self, i + 1, best_server, min_connections)

\* The scan `for (i, server) in servers.iter().enumerate()` from index i on;
\* best_server is an Option<usize>, and a min_connections of None stands for
\* usize::MAX, which no count of this model reaches.
RECURSIVE LCScan(_, _, _, _)
LCScan(self, i, best_server, min_connections) ==
    IF i = len(self.servers) THEN best_server
    ELSE IF /\ self.servers[i] = "Healthy"
            /\ \/ min_connections = None
               \/ self.connection_counts[i] < min_connections
         THEN LCScan(self, i + 1, i, self.connection_counts[i])
         ELSE LCScan(self, i + 1, best_server, min_connections)

\* Mutant: among the least loaded servers the last one is selected.
LCselect_server_LastOfTies(self) ==
    IF ~(len(self.servers) # 0) THEN LBPanic(self)
    ELSE IF ~(len(self.connection_counts) = len(self.servers)) THEN LBPanic(self)
    ELSE LET best_server == LCScan_LastOfTies(self, 0, None, None) IN
         IF is_some(best_server)
         THEN LBRet([self EXCEPT !.connection_counts[best_server] = @ + 1],
                    Selected(best_server), 0)
         ELSE LBRet(self, NoHealthyServers, 0)

LCselect_server(self) ==
    IF ~(len(self.servers) # 0) THEN LBPanic(self)
    ELSE IF ~(len(self.connection_counts) = len(self.servers)) THEN LBPanic(self)
    ELSE LET best_server == LCScan(self, 0, None, None) IN
         IF is_some(best_server)
         THEN LBRet([self EXCEPT !.connection_counts[best_server] = @ + 1],
                    Selected(best_server), 0)
         ELSE LBRet(self, NoHealthyServers, 0)

LChealthy_server(self, server_id) ==
    IF ~(server_id < len(self.servers)) THEN LBPanic(self)
    ELSE IF ~(len(self.connection_counts) = len(self.servers)) THEN LBPanic(self)
    ELSE LBRet([self EXCEPT !.servers[server_id] = "Healthy"], Unit, 0)

\* Mutant: the server is marked without its connection count being cleared.
LCunhealthy_server_KeepCount(self, server_id) ==
    IF ~(server_id < len(self.servers)) THEN LBPanic(self)
    ELSE IF ~(len(self.connection_counts) = len(self.servers)) THEN LBPanic(self)
    ELSE LBRet([self EXCEPT !.servers[server_id] = "Unhealthy"], Unit, 0)

LCunhealthy_server(self, server_id) ==
    IF ~(server_id < len(self.servers)) THEN LBPanic(self)
    ELSE IF ~(len(self.connection_counts) = len(self.servers)) THEN LBPanic(self)
    ELSE LBRet([self EXCEPT !.servers[server_id] = "Unhealthy",
                            !.connection_counts[server_id] = 0],
               Unit, 0)

LCcount(self) == len(self.servers)

\* --------------------------------------------------- load balancer callers
\* Here `args` is the Vec<Server> handed to the constructor, `last` the latest
\* method call (for a health mark, `was` is the state the server had before
\* it) and `hist.run` the indexes RoundRobin selected since it was built or a
\* server was last marked, up to one entry per server.
LBLastInit ==
    [op |-> "None", id |-> None, result |-> Unit, advances |-> 0, was |-> "None"]

LBCalled(op, id, r, was) ==
    [op |-> op, id |-> id, result |-> r.result, advances |-> r.advances, was |-> was]

LBHistInit == [run |-> <<>>]

LBObserve(h, pre, r) ==
    [run |-> IF r.result.tag = "Selected" /\ Len(h.run) < len(pre.servers)
             THEN Append(h.run, r.result.id)
             ELSE h.run]

LBInit ==
    /\ kind \in LBKinds
    /\ pc = "start"
    /\ args \in [servers : Pools]
    /\ cb = Unbuilt
    /\ count = Unbuilt
    /\ time = Unbuilt
    /\ now = 0
    /\ last = LBLastInit
    /\ hist = LBHistInit
    /\ rr = Unbuilt
    /\ lc = Unbuilt

RoundRobinNew ==
    /\ kind = "RoundRobin"
    /\ pc = "start"
    /\ LET r == RoundRobinnew(args.servers) IN
        /\ pc' = IF r.ok THEN "live" ELSE "ctor_panic"
        /\ rr' = r.value
    /\ UNCHANGED <<kind, args, cb, count, time, now, last, hist, lc>>

RoundRobinSelect ==
    /\ kind = "RoundRobin"
    /\ pc = "live"
    /\ LET r == RRselect_server(rr) IN
        /\ rr' = r.self
        /\ last' = LBCalled("select_server", None, r, "None")
        /\ hist' = LBObserve(hist, rr, r)
    /\ UNCHANGED <<kind, pc, args, cb, count, time, now, lc>>

RoundRobinHealthy ==
    /\ kind = "RoundRobin"
    /\ pc = "live"
    /\ \E server_id \in DOMAIN rr.servers :
        LET r == RRhealthy_server(rr, server_id) IN
        /\ rr' = r.self
        /\ last' = LBCalled("healthy_server", server_id, r, rr.servers[server_id])
        /\ hist' = LBHistInit
    /\ UNCHANGED <<kind, pc, args, cb, count, time, now, lc>>

RoundRobinUnhealthy ==
    /\ kind = "RoundRobin"
    /\ pc = "live"
    /\ \E server_id \in DOMAIN rr.servers :
        LET r == RRunhealthy_server(rr, server_id) IN
        /\ rr' = r.self
        /\ last' = LBCalled("unhealthy_server", server_id, r, rr.servers[server_id])
        /\ hist' = LBHistInit
    /\ UNCHANGED <<kind, pc, args, cb, count, time, now, lc>>

LeastConnectionsNew ==
    /\ kind = "LeastConnections"
    /\ pc = "start"
    /\ LET r == LeastConnectionsnew(args.servers) IN
        /\ pc' = IF r.ok THEN "live" ELSE "ctor_panic"
        /\ lc' = r.value
    /\ UNCHANGED <<kind, args, cb, count, time, now, last, hist, rr>>

\* Connection counts only grow in select_server: the caller stops selecting
\* once the next selection would take a count past MaxConnections.
LeastConnectionsSelect ==
    /\ kind = "LeastConnections"
    /\ pc = "live"
    /\ LET r == LCselect_server(lc) IN
        /\ \A i \in DOMAIN lc.servers : r.self.connection_counts[i] <= MaxConnections
        /\ lc' = r.self
        /\ last' = LBCalled("select_server", None, r, "None")
    /\ UNCHANGED <<kind, pc, args, cb, count, time, now, hist, rr>>

LeastConnectionsHealthy ==
    /\ kind = "LeastConnections"
    /\ pc = "live"
    /\ \E server_id \in DOMAIN lc.servers :
        LET r == LChealthy_server(lc, server_id) IN
        /\ lc' = r.self
        /\ last' = LBCalled("healthy_server", server_id, r, lc.servers[server_id])
    /\ UNCHANGED <<kind, pc, args, cb, count, time, now, hist, rr>>

LeastConnectionsUnhealthy ==
    /\ kind = "LeastConnections"
    /\ pc = "live"
    /\ \E server_id \in DOMAIN lc.servers :
        LET r == LCunhealthy_server(lc, server_id) IN
        /\ lc' = r.self
        /\ last' = LBCalled("unhealthy_server", server_id, r, lc.servers[server_id])
    /\ UNCHANGED <<kind, pc, args, cb, count, time, now, hist, rr>>

LBNext ==
    \/ RoundRobinNew
    \/ RoundRobinSelect
    \/ RoundRobinHealthy
    \/ RoundRobinUnhealthy
    \/ LeastConnectionsNew
    \/ LeastConnectionsSelect
    \/ LeastConnectionsHealthy
    \/ LeastConnectionsUnhealthy

SpecLB == LBInit /\ [][LBNext]_vars

\* ------------------------------------------------- claims on load balancers
RRLive == kind = "RoundRobin" /\ pc = "live"
LCLive == kind = "LeastConnections" /\ pc = "live"

\* The pool of the load balancer this caller built.
Servers == IF kind = "RoundRobin" THEN rr.servers ELSE lc.servers

\* The indexes of the Healthy servers of a pool.
HealthyIn(servers) == {i \in DOMAIN servers : servers[i] = "Healthy"}

\* C27: RoundRobin and LeastConnections - after any sequence of select_server
\* / healthy_server / unhealthy_server calls with in-range ids, select_server
\* returns Selected{id} only for an id whose server is Healthy at that moment,
\* and returns NoHealthyServers if and only if every server is Unhealthy.
C27_SelectsOnlyHealthy ==
    ((RRLive \/ LCLive) /\ last.op = "select_server") =>
        /\ last.result.tag \in {"Selected", "NoHealthyServers"}
        /\ last.result.tag = "Selected" => last.result.id \in HealthyIn(Servers)
        /\ last.result.tag = "NoHealthyServers" <=> HealthyIn(Servers) = {}

\* C27 witness: a RoundRobin whose select_server skipped an Unhealthy server
\* and selected one that was Unhealthy when the pool was built.
C27_Witness ==
    /\ RRLive
    /\ last.op = "select_server"
    /\ last.result.tag = "Selected"
    /\ last.advances >= 1
    /\ args.servers[last.result.id] = "Unhealthy"

\* The indexes in a run of selections.
RunIds == {hist.run[j] : j \in 1..Len(hist.run)}

\* C28 (as claimed): RoundRobin - with k >= 2 servers, all Healthy, and no
\* health mark in between, k consecutive select_server calls return each of
\* the k indexes exactly once.
C28_RoundRobinRotates ==
    (/\ RRLive
     /\ len(rr.servers) >= 2
     /\ HealthyIn(rr.servers) = DOMAIN rr.servers
     /\ Len(hist.run) = len(rr.servers)) =>
        RunIds = DOMAIN rr.servers

\* The least loaded Healthy server: the smallest connection count, and among
\* equal counts the lowest index.
LeastLoaded(self) ==
    CHOOSE i \in HealthyIn(self.servers) :
        \A j \in HealthyIn(self.servers) :
            \/ self.connection_counts[i] < self.connection_counts[j]
            \/ self.connection_counts[i] = self.connection_counts[j] /\ i <= j

\* C29: LeastConnections - select_server with a Healthy server in the pool
\* selects the Healthy server with the smallest connection count, the lowest
\* index among ties, adds exactly 1 to that server's count and leaves every
\* other count and every health state unchanged.
C29_SelectsLeastLoaded ==
    [][(LCLive /\ last'.op = "select_server" /\ HealthyIn(lc.servers) # {}) =>
        /\ last'.result = Selected(LeastLoaded(lc))
        /\ lc'.connection_counts =
            [lc.connection_counts EXCEPT ![LeastLoaded(lc)] = @ + 1]
        /\ lc'.servers = lc.servers]_vars

\* C29 witness: a selection that broke a tie between two Healthy servers with
\* connections in favour of index 0.
C29_Witness ==
    /\ LCLive
    /\ last.op = "select_server"
    /\ last.result = Selected(0)
    /\ len(lc.servers) >= 2
    /\ lc.servers[1] = "Healthy"
    /\ lc.connection_counts[1] >= 1
    /\ lc.connection_counts[0] = lc.connection_counts[1] + 1

\* C30: RoundRobin - after any sequence of select_server / healthy_server /
\* unhealthy_server calls with in-range ids, repeated marks included,
\* unhealthy_count is the number of Unhealthy servers, current_index is below
\* the number of servers, count() is the size of the pool the balancer was
\* built with, and no call has failed an assertion or underflowed
\* unhealthy_count.
C30_RoundRobinInvariant ==
    RRLive =>
        /\ rr.unhealthy_count =
            Cardinality(DOMAIN rr.servers \ HealthyIn(rr.servers))
        /\ rr.current_index \in 0..(len(rr.servers) - 1)
        /\ RRcount(rr) = len(args.servers)
        /\ last.result.tag # "Panic"

\* C30 witness: a server already Healthy is marked Healthy again while
\* another server is Unhealthy and the index has moved off 0.
C30_Witness ==
    /\ RRLive
    /\ last.op = "healthy_server"
    /\ last.was = "Healthy"
    /\ rr.unhealthy_count >= 1
    /\ rr.current_index >= 1

\* C31: RoundRobin - select_server always terminates: whenever it does not
\* return NoHealthyServers, its skip loop has stopped after fewer than
\* servers.len() index advances, at a Healthy server, which is the one it
\* returns; and it returns NoHealthyServers without advancing.
C31_SkipLoopTerminates ==
    (RRLive /\ last.op = "select_server") =>
        /\ last.result.tag \in {"Selected", "NoHealthyServers"}
        /\ last.result.tag = "Selected" =>
            /\ last.advances < len(rr.servers)
            /\ last.result.id = rr.current_index
            /\ rr.servers[rr.current_index] = "Healthy"
        /\ last.result.tag = "NoHealthyServers" => last.advances = 0

\* C31 witness: on a pool of more than two servers the loop skipped every
\* server but one, len - 1 advances, before it stopped.
C31_Witness ==
    /\ RRLive
    /\ last.op = "select_server"
    /\ last.result.tag = "Selected"
    /\ len(rr.servers) > 2
    /\ last.advances = len(rr.servers) - 1

\* C32: LeastConnections - unhealthy_server(id) sets that server Unhealthy
\* and its connection count to 0 and changes nothing else; healthy_server(id)
\* sets that server Healthy and changes no count and no other server; no
\* other call decreases a connection count; so an Unhealthy server always has
\* count 0, and a server marked Unhealthy and then Healthy is back in the
\* selection with count 0.
C32_UnhealthyResetsCount ==
    /\ [](LCLive =>
            \A i \in DOMAIN lc.servers :
                lc.servers[i] = "Unhealthy" => lc.connection_counts[i] = 0)
    /\ [][(LCLive /\ last'.op = "unhealthy_server") =>
            /\ lc'.servers = [lc.servers EXCEPT ![last'.id] = "Unhealthy"]
            /\ lc'.connection_counts = [lc.connection_counts EXCEPT ![last'.id] = 0]]_vars
    /\ [][(LCLive /\ last'.op = "healthy_server") =>
            /\ lc'.servers = [lc.servers EXCEPT ![last'.id] = "Healthy"]
            /\ lc'.connection_counts = lc.connection_counts
            /\ lc.servers[last'.id] = "Unhealthy" =>
                /\ lc'.connection_counts[last'.id] = 0
                /\ last'.id \in HealthyIn(lc'.servers)]_vars
    /\ [][(LCLive /\ last'.op # "unhealthy_server") =>
            \A i \in DOMAIN lc.servers :
                lc'.connection_counts[i] >= lc.connection_counts[i]]_vars

\* C32 witness: a server that held connections while it was built Healthy has
\* been marked Unhealthy and then Healthy again and now has count 0, while
\* another Healthy server still holds connections.
C32_Witness ==
    /\ LCLive
    /\ last.op = "healthy_server"
    /\ last.was = "Unhealthy"
    /\ args.servers[last.id] = "Healthy"
    /\ lc.connection_counts[last.id] = 0
    /\ \E j \in HealthyIn(lc.servers) : lc.connection_counts[j] >= 1

====
